---- MODULE Spec2Model ----
(***************************************************************************)
(* Video jobs of the Quartz backend: the stabilization job                 *)
(* (scripts/video_api.py api_video_stabilization, which runs               *)
(* scripts/utils/video_helpers.py stabilize_video) and the per-frame       *)
(* effect jobs (api_video_background_removal, api_video_color_grading,     *)
(* api_video_portrait_effect), over the directories they share: tmp/,      *)
(* tmp/frames, tmp/mask, tmp/processed and assets/public.                  *)
(*                                                                         *)
(* A frame is named by its source index; a file's content is the pair      *)
(* <<job, index>> it was produced from.  External tools (ffmpeg, ffprobe,  *)
(* cv2.VideoCapture, VidStab) are modelled by their outcomes.              *)
(***************************************************************************)
EXTENDS Integers, Sequences, FiniteSets, TLC

\* smoothing_window of stabilize_video (video_helpers.py:159, where it is 30),
\* scaled down so that warm-up, steady state and drain are all enumerated.
smoothing_window == 2

\* Tool failures (non-zero return codes, failed reads, raised exceptions)
\* injected in one run.
MaxFaults == 1

\* Longest input of a stabilization job, in frames: warm-up plus two.
MaxFrames == smoothing_window + 2

\* Frame counts ffmpeg extracts for an effect job.
EffectFrames == 0 .. 2

Jobs == {1, 2}

NoFrame == 0 - 1
NoFile == <<>>
Slots == 0 .. MaxFrames

VARIABLES
    job,        \* job[j]: the request j, its locals and its response
    frames,     \* tmp/frames/frame_%06d.png: slot -> content or NoFile
    tmask,      \* tmp/mask/transformed_mask_%06d.png
    imask,      \* tmp/mask/inpaint_mask_%06d.png
    processed,  \* tmp/processed/frame_%06d.png
    audio,      \* tmp/audio.aac: NoFile or [owner, kind, dur]
    dirs,       \* dirs[d]: 0 when d does not exist, else the job whose makedirs created it
    clip,       \* tmp/<uuid>.mp4 of job j: "absent", "partial", "complete"
    mov,        \* tmp/<uuid>.mov of job j
    pub,        \* files of job j in assets/public
    faults,     \* tool failures injected so far
    warp,       \* the mask and frame arithmetic of one run of the frame loop
    gui,        \* the GuiTranscriber window of simple-whisper-transcription
    llm         \* one call of getResponseFromLlama3 (llm_api.py)

jobVars == <<job, frames, tmask, imask, processed, audio, dirs, clip, mov, pub, faults>>

vars == <<job, frames, tmask, imask, processed, audio, dirs, clip, mov, pub, faults, warp, gui, llm>>

fsShared == <<frames, tmask, imask, processed, audio, dirs>>

DirNames == {"frames", "mask", "processed"}

IdleJob ==
    [ kind |-> "idle", pc |-> "idle",
      path |-> "ok", has_time_stamp |-> FALSE, has_audio |-> FALSE, fps |-> 30,
      pos |-> 0, eof |-> FALSE, skipped |-> {},
      frame_count |-> 0, saved_frame_count |-> 0, frame_size |-> FALSE,
      queue |-> <<>>, consumed |-> 0, transforms |-> FALSE, loop_done |-> FALSE,
      saves |-> <<>>,
      ret |-> "none", listing |-> {}, nframes |-> 0, audio_failed |-> FALSE,
      alone |-> TRUE,
      response |-> [kind |-> "none", status |-> 0, detail |-> "", path |-> ""] ]

NoPub == [temp_avi |-> "absent", mov |-> "absent", avi |-> "absent",
          content |-> <<>>, rate |-> 0, audio |-> "none", vdur |-> 0, adur |-> 0]

\* The pixel arithmetic of lines 193-235 is followed on its own, on small
\* frames (WarpSpec below); while the jobs run it stays idle.
IdleWarp == [pc |-> "idle"]

\* No request has arrived and the directories are empty.
FsInit ==
    /\ job = [j \in Jobs |-> IdleJob]
    /\ frames = [s \in Slots |-> NoFile]
    /\ tmask = [s \in Slots |-> NoFile]
    /\ imask = [s \in Slots |-> NoFile]
    /\ processed = [s \in Slots |-> NoFile]
    /\ audio = NoFile
    /\ dirs = [d \in DirNames |-> 0]
    /\ clip = [j \in Jobs |-> "absent"]
    /\ mov = [j \in Jobs |-> "absent"]
    /\ pub = [j \in Jobs |-> NoPub]
    /\ faults = 0

\* The transcriber is a program of its own (GuiSpec below); while the video
\* jobs run it is not started.
IdleGui == [main |-> "off"]

\* No command has been posted to /api/llm.
IdleLlm == [pc |-> "off"]


Init == FsInit /\ warp = IdleWarp /\ gui = IdleGui /\ llm = IdleLlm

(***************************************************************************)
(* Helpers                                                                 *)
(***************************************************************************)
Min(a, b) == IF a <= b THEN a ELSE b

\* Frame rates get_video_framerate reports (30.0 is also its fallback).
Fps == {15, 30, 60}

\* Duration of n frames shown at rate f, in ticks of 1/60 s.
Duration(n, f) == n * (60 \div f)

Http(status, detail) ==
    [kind |-> "http", status |-> status, detail |-> detail, path |-> ""]

\* os.remove(path): deletes a regular file, raises on a directory.
os_remove(is_dir, content, empty) == IF is_dir THEN content ELSE empty

\* cleanup_temp_files(path): os.remove under try/except; the exception of a
\* failed removal is logged and swallowed, the path stays.
cleanup_temp_files(is_dir, content, empty) == os_remove(is_dir, content, empty)

\* The files ffmpeg reads for -i <dir>/frame_%06d.png: from the first number
\* found among 0 .. 4 (the image2 demuxer's start_number_range is 5),
\* consecutively up to the first gap.
RECURSIVE ReadFrom(_, _)
ReadFrom(dir, s) ==
    IF s \in DOMAIN dir /\ dir[s] # NoFile
    THEN <<dir[s]>> \o ReadFrom(dir, s + 1)
    ELSE <<>>

\* Mutant: the files are handed to the encoder from the highest number down.
ReadPattern_Descending(dir) ==
    LET starts == {s \in DOMAIN dir : s < 5 /\ dir[s] # NoFile}
        up == IF starts = {} THEN <<>>
              ELSE ReadFrom(dir, CHOOSE s \in starts : \A t \in starts : s <= t)
    IN [i \in 1 .. Len(up) |-> up[Len(up) + 1 - i]]

ReadPattern(dir) ==
    LET starts == {s \in DOMAIN dir : s < 5 /\ dir[s] # NoFile}
    IN IF starts = {} THEN <<>>
       ELSE ReadFrom(dir, CHOOSE s \in starts : \A t \in starts : s <= t)

Empty(dir) == \A s \in DOMAIN dir : dir[s] = NoFile

\* What an ffmpeg run that ended with a non-zero code leaves at its output path.
FailedOutput == {"absent", "partial"}

(***************************************************************************)
(* VidStab (kp_method ORB), as stabilize_video drives it                   *)
(***************************************************************************)
\* Mutant: the stabilizer answers with frames from its second frame on.
InitComplete_Immediate(consumed) == consumed - 1 >= 1

\* VidStab._init_is_complete: the frame queue (max_len smoothing_window + 1)
\* has seen the index smoothing_window.
InitComplete(consumed) == consumed - 1 >= smoothing_window

StabOut(out, src, queue, consumed, transforms) ==
    [out |-> out, src |-> src, queue |-> queue, consumed |-> consumed,
     transforms |-> transforms]

\* stabilizer.stabilize_frame(input_frame=frame, smoothing_window): the set of
\* answers.  queue holds the source indices of the buffered frames, consumed
\* counts the frames passed in; there is one raw transform per frame after
\* the first.
stabilize_frame(queue, consumed, transforms, frame) ==
    IF consumed = 0
    THEN IF frame = NoFrame
         THEN {StabOut("raise", NoFrame, queue, consumed, transforms)}
         ELSE {StabOut("black", NoFrame, <<frame>>, 1, transforms)}
    ELSE LET q1 == IF frame # NoFrame THEN Append(queue, frame) ELSE queue
             c1 == IF frame # NoFrame THEN consumed + 1 ELSE consumed
         IN IF ~InitComplete(c1)
            THEN {StabOut("black", NoFrame, q1, c1, transforms)}
                 \cup (IF frame = NoFrame
                       THEN {StabOut("none", NoFrame, q1, c1, transforms)}
                       ELSE {})
            ELSE IF q1 = <<>>
            THEN {StabOut("none", NoFrame, q1, c1, TRUE)}
            ELSE IF c1 - Len(q1) < c1 - 1
            THEN {StabOut("frame", Head(q1), Tail(q1), c1, TRUE)}
            ELSE {StabOut("none", NoFrame, Tail(q1), c1, TRUE)}

\* len(stabilizer.transforms)
LenTransforms(consumed) == IF consumed = 0 THEN 0 ELSE consumed - 1

\* transform_index = frame_count - smoothing_window
TransformIndex(frame_count) == frame_count - smoothing_window

\* Mutant: the warm-up guard of line 194 is missing.
ShouldSave_NoWarmup(frame_count, transforms, consumed) ==
    TransformIndex(frame_count) < LenTransforms(consumed)

\* Mutant: the first frame is saved one iteration late.
ShouldSave_Late(frame_count, transforms, consumed) ==
    /\ frame_count > smoothing_window
    /\ transforms
    /\ TransformIndex(frame_count) < LenTransforms(consumed)

\* Mutant: the bound check of line 198 is missing.
ShouldSave_NoBound(frame_count, transforms, consumed) ==
    /\ frame_count >= smoothing_window
    /\ transforms

\* The guards of lines 194 and 198 around the save.
ShouldSave(frame_count, transforms, consumed) ==
    /\ frame_count >= smoothing_window
    /\ transforms
    /\ TransformIndex(frame_count) < LenTransforms(consumed)

\* vidcap.read(): the next frame, the end of the input, or a frame that
\* fails to decode (None, the capture moves past it).
ReadOutcomes(r) ==
    IF r.eof THEN {[frame |-> NoFrame, pos |-> r.pos, eof |-> TRUE, skipped |-> r.skipped, fault |-> 0]}
    ELSE {[frame |-> NoFrame, pos |-> r.pos, eof |-> TRUE, skipped |-> r.skipped, fault |-> 0]}
         \cup (IF r.pos < MaxFrames
               THEN {[frame |-> r.pos, pos |-> r.pos + 1, eof |-> FALSE, skipped |-> r.skipped, fault |-> 0],
                     [frame |-> NoFrame, pos |-> r.pos + 1, eof |-> FALSE,
                      skipped |-> r.skipped \cup {r.pos}, fault |-> 1]}
               ELSE {})

\* Frames of the input that decoded.
Decoded(r) == r.pos - Cardinality(r.skipped)

(***************************************************************************)
(* The stabilization job: api_video_stabilization and stabilize_video      *)
(***************************************************************************)
Upd(j, r) == job' = [job EXCEPT ![j] = r] /\ UNCHANGED <<warp, gui, llm>>

Finish(r, resp) == [r EXCEPT !.pc = "done", !.response = resp]

\* A second request is taken only after the first (the two are alike).
MayStart(j) ==
    /\ job[j].kind = "idle"
    /\ \A i \in Jobs : i < j => job[i].kind # "idle"

\* No other request is being served at this moment.
NoneRunning == \A i \in Jobs : job[i].pc \in {"idle", "done"}

\* What request.video_path names on disk.
Paths == {"ok", "missing", "not_a_file"}

\* api_video_stabilization up to the try block: the handler logs
\* request.time_stamp, which VideoStabilizationRequest does not declare; the
\* AttributeError is raised outside the try and leaves the handler as it is.
\* ensure_directories_exist and the three generated names follow; the path
\* is not looked at.
Requested(r, ts, au, path) ==
    LET q == [r EXCEPT !.kind = "stab", !.path = path,
                       !.has_time_stamp = ts, !.has_audio = au,
                       !.alone = NoneRunning]
    IN IF ts
       THEN [q EXCEPT !.pc = "extract_clip"]
       ELSE Finish(q, [kind |-> "raised", status |-> 500,
                       detail |-> "AttributeError", path |-> ""])

StartStab(j) ==
    /\ MayStart(j)
    /\ \E ts \in BOOLEAN, au \in BOOLEAN, path \in Paths :
         Upd(j, Requested(job[j], ts, au, path))
    /\ UNCHANGED <<fsShared, clip, mov, pub, faults>>

\* Step 1/3: extract_video_clip runs ffmpeg -i <video_path> to write
\* tmp/<uuid>.mp4; on failure the handler raises 400 and removes nothing.
\* ffmpeg cannot open a path that is missing or not a file, and ends with a
\* non-zero code before it creates its output.
ExtractClip(j) ==
    /\ job[j].pc = "extract_clip"
    /\ \/ /\ job[j].path = "ok"
          /\ clip' = [clip EXCEPT ![j] = "complete"]
          /\ Upd(j, [job[j] EXCEPT !.pc = "convert_to_mov"])
          /\ UNCHANGED faults
       \/ /\ job[j].path = "ok"
          /\ faults < MaxFaults
          /\ faults' = faults + 1
          /\ \E left \in FailedOutput : clip' = [clip EXCEPT ![j] = left]
          /\ Upd(j, Finish(job[j], Http(400, "Failed to extract video clip")))
       \/ /\ job[j].path # "ok"
          /\ UNCHANGED <<faults, clip>>
          /\ Upd(j, Finish(job[j], Http(400, "Failed to extract video clip")))
    /\ UNCHANGED <<fsShared, mov, pub>>

\* Step 2/3: convert_to_mov writes tmp/<uuid>.mov; on failure
\* cleanup_temp_files(temp_clip_path) and 400.
ConvertToMov(j) ==
    /\ job[j].pc = "convert_to_mov"
    /\ \/ /\ mov' = [mov EXCEPT ![j] = "complete"]
          /\ Upd(j, [job[j] EXCEPT !.pc = "stabilize_video"])
          /\ UNCHANGED <<faults, clip>>
       \/ /\ faults < MaxFaults
          /\ faults' = faults + 1
          /\ \E left \in FailedOutput : mov' = [mov EXCEPT ![j] = left]
          /\ clip' = [clip EXCEPT ![j] = cleanup_temp_files(FALSE, clip[j], "absent")]
          /\ Upd(j, Finish(job[j], Http(400, "Failed to convert video format")))
    /\ UNCHANGED <<fsShared, pub>>

\* os.makedirs(d, exist_ok=True)
makedirs(ds, d, j) == IF ds[d] = 0 THEN [ds EXCEPT ![d] = j] ELSE ds

\* stabilize_video before the loop: the two fixed directories, the
\* stabilizer, the capture and the counters.
StabilizeBegin(j) ==
    /\ job[j].pc = "stabilize_video"
    /\ dirs' = makedirs(makedirs(dirs, "frames", j), "mask", j)
    /\ Upd(j, [job[j] EXCEPT !.pc = "loop", !.frame_count = 0, !.saved_frame_count = 0])
    /\ UNCHANGED <<frames, tmask, imask, processed, audio, clip, mov, pub, faults>>

\* cv2.imwrite(path, image): writes the file, or returns False when the
\* directory is gone.
imwrite(dir, exists, slot, content) ==
    IF exists /\ slot \in DOMAIN dir THEN [dir EXCEPT ![slot] = content] ELSE dir

\* One iteration of the while loop (lines 175-241).  frame_count is followed
\* up to MaxFrames + smoothing_window + 1; a loop that gets there has used up
\* its input before the stabilizer was warmed up, is answered with the black
\* frame on every further call, and goes round for ever in the same state.
LoopIter(j) ==
    /\ job[j].pc = "loop"
    /\ job[j].frame_count <= MaxFrames + smoothing_window
    /\ \E rd \in ReadOutcomes(job[j]) :
         /\ faults + rd.fault <= MaxFaults
         /\ faults' = faults + rd.fault
         /\ \E st \in stabilize_frame(job[j].queue, job[j].consumed, job[j].transforms, rd.frame) :
              LET r0 == [job[j] EXCEPT !.pos = rd.pos, !.eof = rd.eof, !.skipped = rd.skipped,
                                       !.frame_size = (@ \/ rd.frame # NoFrame),
                                       !.queue = st.queue, !.consumed = st.consumed,
                                       !.transforms = st.transforms]
                  n == r0.saved_frame_count
                  ti == TransformIndex(r0.frame_count)
              IN CASE st.out = "raise" ->
                        \* except Exception (line 339): return False
                        /\ Upd(j, [r0 EXCEPT !.pc = "stabilize_return", !.ret = "False",
                                             !.loop_done = TRUE])
                        /\ UNCHANGED <<frames, tmask, imask>>
                   [] st.out = "none" ->
                        /\ Upd(j, [r0 EXCEPT !.pc = "after_loop", !.loop_done = TRUE])
                        /\ UNCHANGED <<frames, tmask, imask>>
                   [] OTHER ->
                        IF ShouldSave(r0.frame_count, r0.transforms, r0.consumed)
                        THEN /\ tmask' = imwrite(tmask, dirs["mask"] # 0, n, <<j, ti>>)
                             /\ imask' = imwrite(imask, dirs["mask"] # 0, n, <<j, ti>>)
                             /\ frames' = imwrite(frames, dirs["frames"] # 0, n, <<j, st.src>>)
                             /\ Upd(j, [r0 EXCEPT !.saved_frame_count = n + 1,
                                                  !.saves = Append(@, [i |-> r0.frame_count,
                                                                       src |-> st.src,
                                                                       transform_index |-> ti,
                                                                       consumed |-> r0.consumed,
                                                                       len_transforms |-> LenTransforms(r0.consumed)]),
                                                  !.frame_count = @ + 1])
                        ELSE /\ Upd(j, [r0 EXCEPT !.frame_count = @ + 1])
                             /\ UNCHANGED <<frames, tmask, imask>>
    /\ UNCHANGED <<processed, audio, dirs, clip, mov, pub>>

\* Lines 244-271, first half: after the loop, either no frame was saved and
\* stabilize_video returns False, or ffmpeg starts writing temp_output from
\* tmp/frames/frame_%06d.png.
AfterLoop(j) ==
    /\ job[j].pc = "after_loop"
    /\ IF job[j].saved_frame_count > 0
       THEN /\ pub' = [pub EXCEPT ![j].temp_avi = "partial"]
            /\ Upd(j, [job[j] EXCEPT !.pc = "encode_frames"])
       ELSE /\ Upd(j, [job[j] EXCEPT !.pc = "stabilize_return", !.ret = "False"])
            /\ UNCHANGED pub
    /\ UNCHANGED <<fsShared, clip, mov, faults>>

\* The frames-to-video ffmpeg ends (process.wait, line 271).  It reads
\* tmp/frames/frame_%06d.png at -framerate fps, the rate of the input (line
\* 164), and has no audio input.  A non-zero code returns False with nothing
\* removed.
EncodeFrames(j) ==
    /\ job[j].pc = "encode_frames"
    /\ \/ /\ ReadPattern(frames) # <<>>
          /\ pub' = [pub EXCEPT ![j].temp_avi = "complete",
                                ![j].content = ReadPattern(frames),
                                ![j].rate = job[j].fps,
                                ![j].audio = "none",
                                ![j].vdur = Duration(Len(ReadPattern(frames)), job[j].fps),
                                ![j].adur = 0]
          /\ Upd(j, [job[j] EXCEPT !.pc = "encode_mov_start"])
          /\ UNCHANGED faults
       \/ /\ \/ ReadPattern(frames) = <<>> /\ UNCHANGED faults
             \/ faults < MaxFaults /\ faults' = faults + 1
          /\ \E left \in FailedOutput : pub' = [pub EXCEPT ![j].temp_avi = left]
          /\ Upd(j, [job[j] EXCEPT !.pc = "stabilize_return", !.ret = "False"])
    /\ UNCHANGED <<fsShared, clip, mov>>

\* The second ffmpeg (temp_output -> output_path) starts writing the final
\* path (lines 277-288).
EncodeMovStart(j) ==
    /\ job[j].pc = "encode_mov_start"
    /\ pub' = [pub EXCEPT ![j].mov = "partial"]
    /\ Upd(j, [job[j] EXCEPT !.pc = "encode_mov"])
    /\ UNCHANGED <<fsShared, clip, mov, faults>>

\* Lines 306-328: the numbered frame and mask files 0 .. saved_frame_count-1
\* are removed, whoever wrote them.
RemoveNumbered(dir, n) == [s \in DOMAIN dir |-> IF s < n THEN NoFile ELSE dir[s]]

\* os.rmdir(temp_frames_dir); os.rmdir(temp_mask_dir) under one try: the
\* second is reached only when the first succeeded.
RmdirBoth(ds, fr, tm, im) ==
    IF ds["frames"] # 0 /\ Empty(fr)
    THEN IF ds["mask"] # 0 /\ Empty(tm) /\ Empty(im)
         THEN [ds EXCEPT !["frames"] = 0, !["mask"] = 0]
         ELSE [ds EXCEPT !["frames"] = 0]
    ELSE ds

\* The second ffmpeg ends (line 295).  Code 0: temp_output is removed.
\* Otherwise temp_output is renamed to <output>.avi.  Either way the numbered
\* files are cleaned up and stabilize_video returns True (line 331).
EncodeMov(j) ==
    /\ job[j].pc = "encode_mov"
    /\ \/ /\ pub' = [pub EXCEPT ![j].mov = "complete", ![j].temp_avi = "absent"]
          /\ UNCHANGED faults
       \/ /\ faults < MaxFaults
          /\ faults' = faults + 1
          /\ \E left \in FailedOutput :
               pub' = [pub EXCEPT ![j].mov = left, ![j].temp_avi = "absent",
                                  ![j].avi = "complete"]
    /\ LET n == job[j].saved_frame_count
           fr == RemoveNumbered(frames, n)
           tm == RemoveNumbered(tmask, n)
           im == RemoveNumbered(imask, n)
       IN /\ frames' = fr
          /\ tmask' = tm
          /\ imask' = im
          /\ dirs' = RmdirBoth(dirs, fr, tm, im)
    /\ Upd(j, [job[j] EXCEPT !.pc = "stabilize_return", !.ret = "True"])
    /\ UNCHANGED <<processed, audio, clip, mov>>

\* Step 3/3 of the handler (lines 238-260): on False,
\* cleanup_temp_files(clip, mov) and 400; on True the same cleanup and the
\* response with the link and the absolute path of final_output_path.
StabilizeReturn(j) ==
    /\ job[j].pc = "stabilize_return"
    /\ clip' = [clip EXCEPT ![j] = cleanup_temp_files(FALSE, clip[j], "absent")]
    /\ mov' = [mov EXCEPT ![j] = cleanup_temp_files(FALSE, mov[j], "absent")]
    /\ IF job[j].ret = "True"
       THEN Upd(j, Finish(job[j], [kind |-> "ok", status |-> 200, detail |-> "",
                                   path |-> "mov"]))
       ELSE Upd(j, Finish(job[j], Http(400, "Failed to stabilize video")))
    /\ UNCHANGED <<fsShared, pub, faults>>

(***************************************************************************)
(* The per-frame effect jobs: api_video_background_removal,                *)
(* api_video_color_grading, api_video_portrait_effect (one shape)          *)
(***************************************************************************)
\* The content of ./tmp, the temp_dir of the effect handlers.
TmpTree(fr, pr, au) ==
    [frames |-> fr, tmask |-> tmask, imask |-> imask, processed |-> pr, audio |-> au,
     dirs |-> dirs, clip |-> clip, mov |-> mov]

NoTmp ==
    [frames |-> [s \in Slots |-> NoFile], tmask |-> [s \in Slots |-> NoFile],
     imask |-> [s \in Slots |-> NoFile], processed |-> [s \in Slots |-> NoFile],
     audio |-> NoFile, dirs |-> [d \in DirNames |-> 0],
     clip |-> [j \in Jobs |-> "absent"], mov |-> [j \in Jobs |-> "absent"]]

\* cleanup_temp_files(temp_dir) of the effect handlers, on ./tmp as it is
\* once the step has written fr, pr and au.
CleanupTempDir(fr, pr, au) ==
    LET t == cleanup_temp_files(TRUE, TmpTree(fr, pr, au), NoTmp)
    IN /\ frames' = t.frames
       /\ tmask' = t.tmask
       /\ imask' = t.imask
       /\ processed' = t.processed
       /\ audio' = t.audio
       /\ dirs' = t.dirs
       /\ clip' = t.clip
       /\ mov' = t.mov

\* The effect handlers are async def and never await: the event loop runs
\* one of them at a time.  (api_video_stabilization is a plain def and runs
\* in the thread pool beside them.)
EffectRunning == \E i \in Jobs : job[i].kind = "effect" /\ job[i].pc # "done"

\* validate_video_path, get_video_framerate, temp_dir = "./tmp" and the two
\* makedirs (lines 291-304).
StartEffect(j) ==
    /\ MayStart(j)
    /\ ~EffectRunning
    /\ \E path \in Paths, f \in Fps, au \in BOOLEAN :
         LET r == [job[j] EXCEPT !.kind = "effect", !.path = path, !.fps = f,
                                 !.has_audio = au, !.alone = NoneRunning]
         IN CASE path = "missing" ->
                   /\ Upd(j, Finish(r, Http(400, "Video file not found")))
                   /\ UNCHANGED dirs
              [] path = "not_a_file" ->
                   /\ Upd(j, Finish(r, Http(400, "Path is not a file")))
                   /\ UNCHANGED dirs
              [] OTHER ->
                   /\ Upd(j, [r EXCEPT !.pc = "extract_frames_and_audio"])
                   /\ dirs' = makedirs(makedirs(dirs, "frames", j), "processed", j)
    /\ UNCHANGED <<frames, tmask, imask, processed, audio, clip, mov, pub, faults>>

\* ffmpeg -vf fps=30 <frames_dir>/frame_%06d.png: n frames, numbered from 1.
WriteExtracted(dir, j, n) ==
    [s \in DOMAIN dir |-> IF 1 <= s /\ s <= n THEN <<j, s - 1>> ELSE dir[s]]

\* Mutant: a failed audio extraction falls back to synthesized silence.
ExtractAudio_Fallback(j, old, dur, probe, extract_ok, duration_ok, silent_ok) ==
    IF probe /\ extract_ok
    THEN [ok |-> TRUE, audio |-> [owner |-> j, kind |-> "source", dur |-> dur]]
    ELSE IF duration_ok
         THEN IF silent_ok
              THEN [ok |-> TRUE, audio |-> [owner |-> j, kind |-> "silence", dur |-> dur]]
              ELSE [ok |-> FALSE, audio |-> old]
         ELSE [ok |-> FALSE, audio |-> old]

\* The audio half of extract_frames_and_audio (lines 78-121): the result
\* (TRUE/FALSE) and tmp/audio.aac afterwards.  probe: ffprobe found an
\* audio stream; extract_ok, duration_ok, silent_ok: the return codes.
ExtractAudio(j, old, dur, probe, extract_ok, duration_ok, silent_ok) ==
    IF probe
    THEN IF extract_ok
         THEN [ok |-> TRUE, audio |-> [owner |-> j, kind |-> "source", dur |-> dur]]
         ELSE [ok |-> FALSE, audio |-> old]
    ELSE IF duration_ok
         THEN IF silent_ok
              THEN [ok |-> TRUE, audio |-> [owner |-> j, kind |-> "silence", dur |-> dur]]
              ELSE [ok |-> FALSE, audio |-> old]
         ELSE [ok |-> FALSE, audio |-> old]

\* Step 1/3 (lines 306-312): extract_frames_and_audio; on False
\* cleanup_temp_files(temp_dir) and 400.  The source lasts n/30 s.
ExtractFramesAndAudio(j) ==
    /\ job[j].pc = "extract_frames_and_audio"
    /\ \E n \in EffectFrames :
         \/ \* the frames ffmpeg fails
            /\ faults < MaxFaults
            /\ faults' = faults + 1
            /\ Upd(j, Finish([job[j] EXCEPT !.nframes = n],
                             Http(400, "Failed to extract video frames")))
            /\ CleanupTempDir(frames, processed, audio)
         \/ /\ dirs["frames"] # 0
            /\ \E probe_ok \in BOOLEAN, extract_ok \in BOOLEAN,
                  duration_ok \in BOOLEAN, silent_ok \in BOOLEAN :
                 LET probe == job[j].has_audio /\ probe_ok
                     nf == (IF job[j].has_audio /\ ~probe_ok THEN 1 ELSE 0)
                           + (IF probe /\ ~extract_ok THEN 1 ELSE 0)
                           + (IF ~probe /\ ~duration_ok THEN 1 ELSE 0)
                           + (IF ~probe /\ duration_ok /\ ~silent_ok THEN 1 ELSE 0)
                     res == ExtractAudio(j, audio, Duration(n, 30), probe,
                                         extract_ok, duration_ok, silent_ok)
                     written == WriteExtracted(frames, j, n)
                 IN \* return codes of commands that do not run are not drawn
                    /\ probe => duration_ok /\ silent_ok
                    /\ ~probe => extract_ok
                    /\ ~probe /\ ~duration_ok => silent_ok
                    /\ ~job[j].has_audio => probe_ok
                    /\ faults + nf <= MaxFaults
                    /\ faults' = faults + nf
                    /\ IF res.ok
                       THEN /\ frames' = written
                            /\ audio' = res.audio
                            /\ Upd(j, [job[j] EXCEPT !.pc = "listdir", !.nframes = n,
                                                     !.audio_failed = (probe /\ ~extract_ok)])
                            /\ UNCHANGED <<tmask, imask, processed, dirs, clip, mov>>
                       ELSE /\ CleanupTempDir(written, processed, res.audio)
                            /\ Upd(j, Finish([job[j] EXCEPT !.nframes = n,
                                                 !.audio_failed = (probe /\ ~extract_ok)],
                                             Http(400, "Failed to extract video frames")))
    /\ UNCHANGED pub

\* frame_files = sorted(os.listdir(temp_frames_dir)) (line 316).
ListDir(j) ==
    /\ job[j].pc = "listdir"
    /\ IF dirs["frames"] # 0
       THEN /\ Upd(j, [job[j] EXCEPT !.pc = "process_frames",
                                     !.listing = {s \in Slots : frames[s] # NoFile}])
            /\ UNCHANGED <<fsShared, clip, mov>>
       ELSE \* os.listdir raises: except Exception, cleanup, 500
            /\ Upd(j, Finish(job[j], Http(500, "Internal server error")))
            /\ CleanupTempDir(frames, processed, audio)
    /\ UNCHANGED <<pub, faults>>

\* The frame loop (lines 317-327): every listed file is loaded, processed
\* and saved under the same name in tmp/processed.  A file that has gone, or
\* a collaborator that raises, ends the handler in except Exception:
\* cleanup_temp_files(temp_dir) and 500.
ProcessFrames(j) ==
    /\ job[j].pc = "process_frames"
    /\ LET gone == {s \in job[j].listing : frames[s] = NoFile}
           all == [s \in Slots |-> IF s \in job[j].listing THEN frames[s] ELSE processed[s]]
           upto(k) == [s \in Slots |-> IF s \in job[j].listing /\ s < k
                                       THEN frames[s] ELSE processed[s]]
       IN \/ /\ gone = {}
             /\ processed' = all
             /\ Upd(j, [job[j] EXCEPT !.pc = "combine"])
             /\ UNCHANGED <<faults, frames, tmask, imask, audio, dirs, clip, mov>>
          \/ /\ gone # {}
             /\ CleanupTempDir(frames, upto(CHOOSE s \in gone : \A t \in gone : s <= t), audio)
             /\ Upd(j, Finish(job[j], Http(500, "Internal server error")))
             /\ UNCHANGED faults
          \/ /\ faults < MaxFaults /\ job[j].listing # {}
             /\ faults' = faults + 1
             /\ \E k \in job[j].listing : CleanupTempDir(frames, upto(k), audio)
             /\ Upd(j, Finish(job[j], Http(500, "Internal server error")))
    /\ UNCHANGED pub

\* Step 3/3 (lines 329-350): combine_frames_to_video_with_audio writes the
\* final name in assets/public from tmp/processed/frame_%06d.png and
\* tmp/audio.aac with -shortest, at the detected frame rate; then
\* cleanup_temp_files(temp_dir) and the response, or 400.
Combine(j) ==
    /\ job[j].pc = "combine"
    /\ LET seq == ReadPattern(processed)
           vd == Duration(Len(seq), job[j].fps)
       IN \/ /\ seq # <<>> /\ audio # NoFile
             /\ pub' = [pub EXCEPT ![j].mov = "complete", ![j].content = seq,
                                   ![j].rate = job[j].fps,
                                   ![j].audio = audio.kind,
                                   ![j].vdur = Min(vd, audio.dur),
                                   ![j].adur = Min(vd, audio.dur)]
             /\ Upd(j, Finish(job[j], [kind |-> "ok", status |-> 200, detail |-> "",
                                       path |-> "mov"]))
             /\ UNCHANGED faults
          \/ /\ \/ (seq = <<>> \/ audio = NoFile) /\ UNCHANGED faults
                \/ faults < MaxFaults /\ faults' = faults + 1
             /\ \E left \in FailedOutput : pub' = [pub EXCEPT ![j].mov = left]
             /\ Upd(j, Finish(job[j], Http(400, "Failed to combine frames with audio")))
    /\ CleanupTempDir(frames, processed, audio)

EffectNext(j) ==
    \/ StartEffect(j)
    \/ ExtractFramesAndAudio(j)
    \/ ListDir(j)
    \/ ProcessFrames(j)
    \/ Combine(j)

StabNext(j) ==
    \/ StartStab(j)
    \/ ExtractClip(j)
    \/ ConvertToMov(j)
    \/ StabilizeBegin(j)
    \/ LoopIter(j)
    \/ AfterLoop(j)
    \/ EncodeFrames(j)
    \/ EncodeMovStart(j)
    \/ EncodeMov(j)
    \/ StabilizeReturn(j)

Next == \E j \in Jobs : StabNext(j) \/ EffectNext(j)

Spec == Init /\ [][Next]_vars

(***************************************************************************)
(* Properties                                                              *)
(***************************************************************************)
Done(j) == job[j].pc = "done"

IsStab(j) == job[j].kind = "stab"

IsEffect(j) == job[j].kind = "effect"

\* The frame loop of job j has just ended (line 244).
AtLoopEnd(j) == IsStab(j) /\ job[j].pc = "after_loop"

\* Names of job j's files that exist in assets/public.
PublicFiles(j) == {f \in {"temp_avi", "mov", "avi"} : pub[j][f] # "absent"}

TooFewFrames(j) ==
    IsStab(j) /\ job[j].loop_done /\ Decoded(job[j]) <= smoothing_window

\* Job j's stabilize_video failed in an encode step, with more than W frames.
EncodeFailed(j) ==
    /\ IsStab(j) /\ Done(j) /\ job[j].ret = "False"
    /\ Decoded(job[j]) > smoothing_window /\ job[j].saved_frame_count > 0

\* C2 as stated: a job with N <= W decoded frames saves nothing, fails with
\* an error of its own kind (InsufficientFrames, so not the error of an
\* encode failure) and never has a file in assets/public.
C2_InsufficientFramesKind ==
    \A j \in Jobs :
        TooFewFrames(j) =>
            /\ job[j].saved_frame_count = 0
            /\ job[j].ret # "True"
            /\ PublicFiles(j) = {}
            /\ Done(j) => /\ job[j].response.kind = "http"
                          /\ \A i \in Jobs : EncodeFailed(i)
                                => job[i].response # job[j].response

\* C2, amended: a job with N <= W decoded frames saves zero frames,
\* stabilize_video returns False, api_video_stabilization answers with
\* HTTPException 400 "Failed to stabilize video" (the error of every other
\* stabilize_video failure), and no file of the job ever exists in
\* assets/public.
C2_TooFewFramesFails ==
    \A j \in Jobs :
        TooFewFrames(j) =>
            /\ job[j].saved_frame_count = 0
            /\ job[j].ret # "True"
            /\ PublicFiles(j) = {}
            /\ job[j].pc \in {"after_loop", "stabilize_return", "done"}
            /\ Done(j) => job[j].response = Http(400, "Failed to stabilize video")

C2_Witness ==
    \E j \in Jobs :
        /\ TooFewFrames(j) /\ Done(j)
        /\ Decoded(job[j]) = smoothing_window
        /\ job[j].response = Http(400, "Failed to stabilize video")

\* Temporary files and directories job j created that exist on disk.
TempLeft(j) ==
    {<<"frames", s>> : s \in {s \in Slots : frames[s] # NoFile /\ frames[s][1] = j}}
    \cup {<<"transformed_mask", s>> : s \in {s \in Slots : tmask[s] # NoFile /\ tmask[s][1] = j}}
    \cup {<<"inpaint_mask", s>> : s \in {s \in Slots : imask[s] # NoFile /\ imask[s][1] = j}}
    \cup {<<"processed", s>> : s \in {s \in Slots : processed[s] # NoFile /\ processed[s][1] = j}}
    \cup {<<"dir", d>> : d \in {d \in DirNames : dirs[d] = j}}
    \cup (IF audio # NoFile /\ audio.owner = j THEN {<<"audio", 0>>} ELSE {})
    \cup (IF clip[j] # "absent" THEN {<<"clip", 0>>} ELSE {})
    \cup (IF mov[j] # "absent" THEN {<<"mov", 0>>} ELSE {})

\* C3: after a video job has ended, by any outcome, none of the temporary
\* files or directories it created exists.
C3_NoTempLeft == \A j \in Jobs : Done(j) => TempLeft(j) = {}

\* C4: the only file of a stabilization job that can exist in assets/public
\* is the complete final artifact: no intermediate encoder output and no
\* partially written file is ever there.
C4_AtomicPublish ==
    \A j \in Jobs :
        IsStab(j) => /\ pub[j].temp_avi = "absent"
                     /\ pub[j].mov # "partial"
                     /\ pub[j].avi # "partial"

\* C5: when api_video_stabilization returns its success response, a complete
\* file exists at the returned absolute_path; stabilize_video never returns
\* True without having produced output_path.
C5_SuccessHasOutput ==
    \A j \in Jobs :
        IsStab(j) =>
            /\ job[j].response.kind = "ok" => pub[j][job[j].response.path] = "complete"
            /\ job[j].ret = "True" => pub[j].mov = "complete"

\* C6: while two jobs run, no file written by one is overwritten or deleted
\* by the other: up to the encode, the frames a stabilization job has saved
\* are still there and still its own, and the frames an effect job listed
\* for processing still exist.
C6_Isolation ==
    \A j \in Jobs :
        /\ IsStab(j) /\ job[j].pc \in {"loop", "after_loop", "encode_frames"}
              => \A s \in Slots : s < job[j].saved_frame_count
                                    => frames[s] # NoFile /\ frames[s][1] = j
        /\ IsEffect(j) /\ job[j].pc = "process_frames"
              => \A s \in job[j].listing : frames[s] # NoFile

\* C7: the artifact of a successful stabilization job has an audio track
\* (source audio or silence), trimmed to min(video, audio).
C7_StabilizedHasAudio ==
    \A j \in Jobs :
        IsStab(j) /\ job[j].response.kind = "ok"
            => /\ pub[j].audio \in {"source", "silence"}
               /\ pub[j].adur = pub[j].vdur

\* C8: a successful job on an input without audio stream yields an output
\* whose audio track is synthesized silence as long as the video: never
\* absent, never of another length.
C8_SilenceForSilentInput ==
    \A j \in Jobs :
        /\ job[j].kind \in {"stab", "effect"}
        /\ ~job[j].has_audio
        /\ job[j].response.kind = "ok"
        => /\ pub[j].audio = "silence"
           /\ pub[j].adur = pub[j].vdur

\* C9 as stated: a failed audio extraction alone never fails the job.
C9_AudioFailureRecovered ==
    \A j \in Jobs :
        job[j].audio_failed /\ Done(j) => job[j].response.kind = "ok"

\* C9, amended: when the source has an audio stream and extracting it fails,
\* extract_frames_and_audio returns False and the job fails with
\* HTTPException 400 "Failed to extract video frames", publishing nothing;
\* silence is synthesized only when no audio stream is detected.
C9_AudioFailureFailsJob ==
    \A j \in Jobs :
        job[j].audio_failed
            => /\ Done(j)
               /\ job[j].response = Http(400, "Failed to extract video frames")
               /\ PublicFiles(j) = {}
               /\ ~(audio # NoFile /\ audio.owner = j /\ audio.kind = "silence")

C9_Witness ==
    \E j \in Jobs :
        /\ IsEffect(j) /\ job[j].has_audio /\ job[j].audio_failed /\ Done(j)
        /\ job[j].nframes > 0

\* Job j's stabilize_video ran and the handler has answered.
Stabilized(j) == IsStab(j) /\ Done(j) /\ job[j].loop_done

\* C10: a frame k that fails to decode does not end the job at k (the loop
\* goes on to the end of the input), and the final result reports exactly the
\* set of skipped indices (two jobs with the same result skipped the same
\* frames).
C10_SkipsReported ==
    /\ \A j \in Jobs :
          IsStab(j) /\ job[j].loop_done /\ job[j].skipped # {} => job[j].eof
    /\ \A i, j \in Jobs :
          Stabilized(i) /\ Stabilized(j) /\ job[i].response = job[j].response
              => job[i].skipped = job[j].skipped

\* The answer validate_video_path gives for a path that is missing or not a
\* regular file.
PathRejection(path) ==
    IF path = "missing" THEN Http(400, "Video file not found")
    ELSE Http(400, "Path is not a file")

\* C11: a job whose video path is missing or not a regular file is rejected
\* with the error of its case (path not found / not a regular file) before
\* any decode or transcode step runs and before any temporary file exists,
\* for the stabilization endpoint as for the effect endpoints.
C11_BadPathRejectedFirst ==
    \A j \in Jobs :
        job[j].kind \in {"stab", "effect"} /\ job[j].path # "ok"
            => /\ Done(j)
               /\ job[j].response = PathRejection(job[j].path)
               /\ TempLeft(j) = {}

\* C12: every failing video job ends in a structured failure result with an
\* error string and an error kind; no failure leaves the handler as an
\* unhandled exception.
C12_StructuredFailure ==
    \A j \in Jobs :
        Done(j) /\ job[j].response.kind # "ok"
            => /\ job[j].response.kind = "http"
               /\ job[j].response.detail # ""
               /\ "errorKind" \in DOMAIN job[j].response

(***************************************************************************)
(* Masks and frames: the arithmetic of lines 193-235, on small frames and  *)
(* with rotations by quarter turns, where it is exact on the pixel grid    *)
(***************************************************************************)
\* Largest multiple of the unit transform applied to a frame.
MaxMagnitude == 3

\* frame.shape[:2] = (h, w)
FrameSizes == {<<2, 3>>, <<3, 3>>, <<3, 5>>}

\* Unit transforms <<dx, dy, da>>: pixels, and quarter turns for da.
Directions == {<<ux, uy, uq>> : ux \in -1 .. 1, uy \in -1 .. 1, uq \in 0 .. 1}

\* Pixel positions <<y, x>> of a frame of the given size.
Pixels(size) == (0 .. size[1] - 1) \X (0 .. size[2] - 1)

\* cos and sin of q quarter turns.
Cos(q) == CASE q % 4 = 0 -> 1 [] q % 4 = 2 -> -1 [] OTHER -> 0

Sin(q) == CASE q % 4 = 1 -> 1 [] q % 4 = 3 -> -1 [] OTHER -> 0

\* np.ones(frame_size, dtype=np.uint8) * 255
Ones255(size) == [p \in Pixels(size) |-> 255]

\* A source frame: every pixel has a value of its own (none is black).
SourceFrame(size) == [p \in Pixels(size) |-> p[1] * size[2] + p[2] + 1]

\* cv2.getRotationMatrix2D(center, angle, 1.0): the matrix
\* [[a, b, (1-a)cx - b cy], [-b, a, b cx + (1-a)cy]], a = cos, b = sin.
getRotationMatrix2D(cx, cy, q) ==
    [a |-> Cos(q), b |-> Sin(q),
     tx |-> (1 - Cos(q)) * cx - Sin(q) * cy,
     ty |-> Sin(q) * cx + (1 - Cos(q)) * cy]

\* cv2.warpAffine(src, M, (w, h), flags=INTER_NEAREST,
\* borderMode=BORDER_CONSTANT, borderValue): dst(x, y) = src(M^-1 (x, y)),
\* for M = [[a, b, tx], [-b, a, ty]]; borderValue where that falls outside.
warpAffine(src, size, M, borderValue) ==
    [p \in Pixels(size) |->
        LET sx == M.a * (p[2] - M.tx) - M.b * (p[1] - M.ty)
            sy == M.b * (p[2] - M.tx) + M.a * (p[1] - M.ty)
        IN IF <<sy, sx>> \in Pixels(size) THEN src[<<sy, sx>>] ELSE borderValue]

\* Mutant: the translation wraps around the frame instead of running off it.
TransformedMask_Wrapped(size, t) ==
    LET R == getRotationMatrix2D(size[2] \div 2, size[1] \div 2, 0 - t[3])
        M == [R EXCEPT !.tx = (@ + t[1]) % size[2], !.ty = (@ + t[2]) % size[1]]
    IN warpAffine(Ones255(size), size, M, 0)

\* Lines 199-219: the mask warped by the transform <<dx, dy, da>>, with da
\* negated, about the centre (w // 2, h // 2).
TransformedMask(size, t) ==
    LET R == getRotationMatrix2D(size[2] \div 2, size[1] \div 2, 0 - t[3])
        M == [R EXCEPT !.tx = @ + t[1], !.ty = @ + t[2]]
    IN warpAffine(Ones255(size), size, M, 0)

\* Mutant: the inversion of line 222 is missing.
InpaintMask_NotInverted(transformed_mask) == transformed_mask

\* Line 222: inpaint_mask = 255 - transformed_mask
InpaintMask(transformed_mask) ==
    [p \in DOMAIN transformed_mask |-> 255 - transformed_mask[p]]

\* The frame stabilize_frame returns for a source frame and its transform:
\* VidStab warps by [[cos da, -sin da, dx], [sin da, cos da, dy]] with a
\* black border.
StabilizedFrame(size, t) ==
    warpAffine(SourceFrame(size), size,
               [a |-> Cos(t[3]), b |-> 0 - Sin(t[3]), tx |-> t[1], ty |-> t[2]], 0)

\* Mutant: the fill spills over to every pixel once the mask is not empty.
inpaint_Spill(frame, inpaint_mask) ==
    [p \in DOMAIN frame |->
        IF \E q \in DOMAIN inpaint_mask : inpaint_mask[q] # 0 THEN -1 ELSE frame[p]]

\* cv2.inpaint(frame, inpaint_mask, 3, cv2.INPAINT_TELEA): the pixels under
\* the mask are filled in (-1 stands for a filled-in value), the others kept.
inpaint(frame, inpaint_mask) ==
    [p \in DOMAIN frame |-> IF inpaint_mask[p] # 0 THEN -1 ELSE frame[p]]

\* stabilizer.transforms[k] of a camera that drifts steadily: k times the
\* unit transform.
TransformOf(k, u) == <<k * u[1], k * u[2], k * u[3]>>

\* The frame loop is about to save its first frame: a frame size and the
\* unit transform of the video.
WarpInit ==
    /\ FsInit
    /\ gui = IdleGui
    /\ llm = IdleLlm
    /\ warp \in {[pc |-> "transform", size |-> size, dir |-> u, k |-> 0,
                  transformed_mask |-> <<>>, inpaint_mask |-> <<>>, saved |-> <<>>] :
                 size \in FrameSizes, u \in Directions}

\* Lines 199-219: transformed_mask for the k-th saved frame.
WarpMask ==
    /\ warp.pc = "transform"
    /\ warp' = [warp EXCEPT !.pc = "invert",
                  !.transformed_mask = TransformedMask(warp.size, TransformOf(warp.k, warp.dir))]
    /\ UNCHANGED <<jobVars, gui, llm>>

\* Line 222.
InvertMask ==
    /\ warp.pc = "invert"
    /\ warp' = [warp EXCEPT !.pc = "inpaint",
                            !.inpaint_mask = InpaintMask(warp.transformed_mask)]
    /\ UNCHANGED <<jobVars, gui, llm>>

\* Lines 225-236: the two masks and the inpainted frame are saved under the
\* number saved_frame_count.
InpaintAndSave ==
    /\ warp.pc = "inpaint"
    /\ warp' = [warp EXCEPT !.pc = "saved",
                  !.saved = Append(@,
                      [transform |-> TransformOf(warp.k, warp.dir),
                       transformed_mask |-> warp.transformed_mask,
                       inpaint_mask |-> warp.inpaint_mask,
                       frame |-> inpaint(StabilizedFrame(warp.size, TransformOf(warp.k, warp.dir)),
                                         warp.inpaint_mask)])]
    /\ UNCHANGED <<jobVars, gui, llm>>

\* Line 241: on to the next frame and its transform.
NextFrame ==
    /\ warp.pc = "saved"
    /\ warp.k < MaxMagnitude
    /\ warp' = [warp EXCEPT !.pc = "transform", !.k = @ + 1]
    /\ UNCHANGED <<jobVars, gui, llm>>

WarpNext == WarpMask \/ InvertMask \/ InpaintAndSave \/ NextFrame

WarpSpec == WarpInit /\ [][WarpNext]_vars

\* Frames saved so far in the followed run.
Saved == IF warp.pc = "idle" THEN <<>> ELSE warp.saved

\* Number of exposed (zero) pixels of a mask.
Exposed(mask) == Cardinality({p \in DOMAIN mask : mask[p] = 0})

\* C13: when every transform of the video is zero, every saved frame has a
\* fully valid warped mask, an empty inpaint mask, and the pixels of its
\* source frame.
C13_ZeroTransformIsIdentity ==
    \A i \in 1 .. Len(Saved) :
        (\A n \in 1 .. i : Saved[n].transform = <<0, 0, 0>>)
            => /\ \A p \in Pixels(warp.size) : Saved[i].transformed_mask[p] = 255
               /\ \A p \in Pixels(warp.size) : Saved[i].inpaint_mask[p] = 0
               /\ Saved[i].frame = SourceFrame(warp.size)

C13_Witness ==
    /\ Len(Saved) = MaxMagnitude + 1
    /\ \A n \in 1 .. Len(Saved) : Saved[n].transform = <<0, 0, 0>>
    /\ Saved[Len(Saved)].frame = SourceFrame(warp.size)

\* C14 as stated: along one direction, the number of exposed pixels of the
\* warped mask never decreases as the magnitude of the transform grows.
C14_ExposedMonotone ==
    \A m1, m2 \in 1 .. Len(Saved) :
        m1 <= m2 => Exposed(Saved[m1].transformed_mask)
                       <= Exposed(Saved[m2].transformed_mask)

\* C14, amended: for a translation by whole pixels (no rotation), the number
\* of exposed pixels of the warped mask never decreases as the magnitude of
\* the translation grows.
C14_TranslationMonotone ==
    warp.pc # "idle" /\ warp.dir[3] = 0 =>
        \A m1, m2 \in 1 .. Len(Saved) :
            m1 <= m2 => Exposed(Saved[m1].transformed_mask)
                           <= Exposed(Saved[m2].transformed_mask)

C14_Witness ==
    /\ warp.pc = "saved" /\ warp.dir = <<1, 0, 0>> /\ warp.size = <<3, 5>>
    /\ Len(Saved) = MaxMagnitude + 1
    /\ Exposed(Saved[1].transformed_mask) = 0
    /\ Exposed(Saved[2].transformed_mask) = 3
    /\ Exposed(Saved[3].transformed_mask) = 6

\* C15: the j-th frame a stabilization job hands to the muxer (0-based) is
\* the corrected source frame j of that job, and the frames are encoded at
\* the frame rate of the source, so frame j is shown at j / fps.
C15_SourceTimestamps ==
    \A j \in Jobs :
        IsStab(j) /\ pub[j].content # <<>>
            => /\ \A i \in 1 .. Len(pub[j].content) : pub[j].content[i] = <<j, i - 1>>
               /\ pub[j].rate = job[j].fps

\* C16: no frame is saved during the first W iterations of the frame loop;
\* the frame saved at iteration i uses the transform with index i - W; and
\* the k-th saved frame (0-based) uses the transform with index k.
C16_WindowLatency ==
    \A j \in Jobs :
        IsStab(j) =>
            /\ job[j].frame_count <= smoothing_window => job[j].saved_frame_count = 0
            /\ Len(job[j].saves) = job[j].saved_frame_count
            /\ \A k \in 1 .. Len(job[j].saves) :
                  /\ job[j].saves[k].i >= smoothing_window
                  /\ job[j].saves[k].transform_index = job[j].saves[k].i - smoothing_window
                  /\ job[j].saves[k].transform_index = k - 1

\* C17: at every save the transform index used lies within the transform
\* history available at that moment: 0 <= frame_count - W < len(transforms).
C17_SaveWithinTransforms ==
    \A j \in Jobs :
        \A k \in 1 .. Len(job[j].saves) :
            /\ job[j].saves[k].transform_index = job[j].saves[k].i - smoothing_window
            /\ 0 <= job[j].saves[k].transform_index
            /\ job[j].saves[k].transform_index < job[j].saves[k].len_transforms

\* A job has saved frames up to the last transform of its history, in the
\* drain after the end of the input.
C17_Witness ==
    \E j \in Jobs :
        /\ IsStab(j) /\ job[j].eof /\ Len(job[j].saves) = smoothing_window + 1
        /\ job[j].saves[Len(job[j].saves)].transform_index
              = job[j].saves[Len(job[j].saves)].len_transforms - 1

\* C18: stabilized frames reach the muxer in strictly ascending source-frame
\* order: a job saves its frames under ascending output numbers in ascending
\* source order, and in the encoded sequence the frames of one source stand
\* in strictly ascending order (none reordered, none twice).
C18_AscendingOrder ==
    \A j \in Jobs :
        /\ \A k1, k2 \in 1 .. Len(job[j].saves) :
              k1 < k2 => job[j].saves[k1].src < job[j].saves[k2].src
        /\ IsStab(j) =>
              \A p, q \in 1 .. Len(pub[j].content) :
                  p < q /\ pub[j].content[p][1] = pub[j].content[q][1]
                      => pub[j].content[p][2] < pub[j].content[q][2]

C18_Witness ==
    \E j \in Jobs :
        /\ IsStab(j) /\ pub[j].temp_avi = "complete"
        /\ pub[j].content = <<(<<j, 0>>), (<<j, 1>>), (<<j, 2>>)>>

\* Job j's frames-to-video encode has started.
MuxStarted(j) == job[j].pc \in {"encode_frames", "encode_mov_start", "encode_mov"}

\* C19 as stated: motion estimation over the whole frame sequence is
\* complete before any frame is smoothed, corrected and inpainted (no frame
\* is taken in by the stabilizer after a frame was saved), and correction of
\* all frames is complete before the mux step starts.
C19_StagesInSequence ==
    \A j \in Jobs :
        IsStab(j) =>
            /\ \A k \in 1 .. Len(job[j].saves) : job[j].saves[k].consumed = job[j].consumed
            /\ MuxStarted(j) => job[j].loop_done

\* C19, amended: estimation, smoothing and correction are interleaved frame
\* by frame in one loop: a frame is corrected, inpainted and saved once the
\* stabilizer has taken in more than W frames and holds a transform for it,
\* while later frames are still unread; only the mux step is sequenced after
\* the others: ffmpeg starts after the loop has ended with every frame
\* saved, and while the loop runs no encoder output of the job exists.
C19_OnlyMuxIsSequenced ==
    \A j \in Jobs :
        IsStab(j) =>
            /\ \A k \in 1 .. Len(job[j].saves) :
                  /\ job[j].saves[k].consumed > smoothing_window
                  /\ job[j].saves[k].transform_index < job[j].saves[k].len_transforms
                  /\ job[j].saves[k].consumed <= job[j].consumed
            /\ MuxStarted(j) => /\ job[j].loop_done
                                /\ Len(job[j].saves) = job[j].saved_frame_count
                                /\ job[j].saved_frame_count > 0
            /\ job[j].pc = "loop" => PublicFiles(j) = {}

\* A frame was saved, a later frame was then taken in, and the encode started.
C19_Witness ==
    \E j \in Jobs :
        /\ IsStab(j) /\ MuxStarted(j)
        /\ Len(job[j].saves) >= 2
        /\ job[j].saves[1].consumed < job[j].consumed

\* One stabilization request on its own, every step of which is eventually
\* taken: the request runs in a worker thread that is never suspended for
\* good.
LoopNext == StabNext(1)

LoopSpec == Init /\ [][LoopNext]_vars /\ WF_vars(LoopNext)

EndlessOnlyInWarmup ==
    \A j \in Jobs :
        job[j].pc = "loop" /\ job[j].frame_count > MaxFrames + smoothing_window
            => job[j].eof /\ ~InitComplete(job[j].consumed) /\ job[j].consumed >= 1

\* C21: for every saved frame the inpaint mask is the exact complement of
\* the warped mask (non-zero exactly where the warped mask is 0), and every
\* pixel that is valid in the warped mask has in the saved frame the value it
\* has in the warped frame.
C21_InpaintOnlyExposed ==
    \A i \in 1 .. Len(Saved) :
        \A p \in Pixels(warp.size) :
            /\ Saved[i].inpaint_mask[p] # 0 <=> Saved[i].transformed_mask[p] = 0
            /\ Saved[i].transformed_mask[p] # 0
                  => Saved[i].frame[p] = StabilizedFrame(warp.size, Saved[i].transform)[p]

\* A saved frame with exposed pixels (filled in) and valid pixels (kept).
C21_Witness ==
    \E i \in 1 .. Len(Saved) :
        /\ \E p \in Pixels(warp.size) :
              Saved[i].transformed_mask[p] = 0 /\ Saved[i].frame[p] = -1
        /\ \E p \in Pixels(warp.size) :
              Saved[i].transformed_mask[p] = 255 /\ Saved[i].frame[p] > 0

\* C22: the mask of every saved frame is warped by the transform that was
\* applied to the frame (same translation, same rotation about the same
\* centre): the mask is 0 exactly at the pixels the warped frame took from
\* outside its source.
C22_MaskFollowsFrame ==
    \A i \in 1 .. Len(Saved) :
        \A p \in Pixels(warp.size) :
            Saved[i].transformed_mask[p] = 0
                <=> StabilizedFrame(warp.size, Saved[i].transform)[p] = 0

(***************************************************************************)
(* GuiTranscriber (simple-whisper-transcription/src/gui_transcriber.py):   *)
(* the Tk main thread, the processing threads and the audio callback       *)
(***************************************************************************)
\* Blocks of audio the input stream delivers in one run.
MaxChunks == 3

\* chunk_samples (line 27), in callback blocks: a window is that many blocks.
chunk_samples == 2

\* Clicks on Start Recording in one run.
MaxStarts == 2

Threads == 1 .. MaxStarts

\* The window after __init__: the model is loading, both buttons disabled,
\* the four runtime attributes None (lines 55-77).
GuiStart ==
    [main |-> "mainloop", model |-> FALSE,
     start_button |-> "disabled", stop_button |-> "disabled",
     audio_queue |-> <<>>, stop_event |-> "none", process_thread |-> 0,
     stream |-> FALSE, streams |-> 0, cb |-> "idle",
     thread |-> [t \in Threads |-> [pc |-> "unborn", buffer |-> 0]],
     starts |-> 0, produced |-> 0, enqueued |-> {}, taken |-> {},
     before_stop |-> {},
     transcription_display |-> 0,
     returned |-> FALSE, late_put |-> FALSE, idle_stops |-> 0]

GuiInit == FsInit /\ warp = IdleWarp /\ llm = IdleLlm /\ gui = GuiStart

GuiStep(g) == gui' = g /\ UNCHANGED <<jobVars, warp, llm>>

\* _load_model (lines 79-84): the model is set and the start button enabled.
LoadModel ==
    /\ gui.main = "mainloop" /\ ~gui.model
    /\ GuiStep([gui EXCEPT !.model = TRUE, !.start_button = "normal"])

\* A click on Start Recording: start_recording is entered on the main
\* thread; the model is loaded (line 150).
StartClick ==
    /\ gui.main = "mainloop" /\ gui.start_button = "normal" /\ gui.model
    /\ gui.starts < MaxStarts
    /\ GuiStep([gui EXCEPT !.main = "new_queue", !.starts = @ + 1, !.returned = FALSE])

\* Line 155: self.audio_queue = queue.Queue()
NewQueue ==
    /\ gui.main = "new_queue"
    /\ GuiStep([gui EXCEPT !.main = "new_event", !.audio_queue = <<>>])

\* Line 156: self.stop_event = threading.Event()
NewEvent ==
    /\ gui.main = "new_event"
    /\ GuiStep([gui EXCEPT !.main = "start_thread", !.stop_event = "clear"])

\* Lines 159-160: the processing thread is created and started.
StartThread ==
    /\ gui.main = "start_thread"
    /\ GuiStep([gui EXCEPT !.main = "start_stream", !.process_thread = gui.starts,
                           !.thread[gui.starts] = [pc |-> "check", buffer |-> 0]])

\* Lines 163-168: sd.InputStream(...).start(); when no input device can be
\* opened it raises, and the exception leaves start_recording with the
\* buttons as they were.
StartStream ==
    /\ gui.main = "start_stream"
    /\ \/ GuiStep([gui EXCEPT !.main = "start_buttons", !.stream = TRUE, !.streams = @ + 1])
       \/ GuiStep([gui EXCEPT !.main = "mainloop"])

\* Lines 171-173.
StartButtons ==
    /\ gui.main = "start_buttons"
    /\ GuiStep([gui EXCEPT !.main = "mainloop", !.start_button = "disabled",
                           !.stop_button = "normal"])

\* A click on Stop Recording: stop_recording and its guard (line 177).
StopClick ==
    /\ gui.main = "mainloop" /\ gui.stop_button = "normal"
    /\ ~(gui.stop_event \in {"none", "set"})
    /\ GuiStep([gui EXCEPT !.main = "set_stop_event"])

\* stop_recording called while nothing is recording (the window being closed,
\* a second call): the guard of line 177 returns at once.  idle_stops counts
\* these calls and is no attribute of the object.
StopIdle ==
    /\ gui.main = "mainloop" /\ gui.idle_stops < 1
    /\ gui.stop_event \in {"none", "set"}
    /\ GuiStep([gui EXCEPT !.idle_stops = @ + 1])

\* Line 183: stop is requested; the chunks enqueued so far are those whose
\* handling the caller waits for.
SetStopEvent ==
    /\ gui.main = "set_stop_event"
    /\ GuiStep([gui EXCEPT !.main = "stop_stream", !.stop_event = "set",
                           !.before_stop = gui.enqueued])

\* Lines 186-189: stream.stop() returns once the running callback has
\* returned; stream.close(); self.stream = None.
StopStream ==
    /\ gui.main = "stop_stream"
    /\ IF gui.stream
       THEN /\ gui.cb = "idle"
            /\ GuiStep([gui EXCEPT !.main = "join", !.stream = FALSE, !.streams = @ - 1])
       ELSE GuiStep([gui EXCEPT !.main = "join"])

\* Lines 192-194: process_thread.join() returns when that thread has ended.
JoinThread ==
    /\ gui.main = "join"
    /\ IF gui.process_thread # 0
       THEN /\ gui.thread[gui.process_thread].pc = "dead"
            /\ GuiStep([gui EXCEPT !.main = "stop_buttons", !.process_thread = 0])
       ELSE GuiStep([gui EXCEPT !.main = "stop_buttons"])

\* Lines 197-199: the buttons are reset and stop_recording returns.
StopButtons ==
    /\ gui.main = "stop_buttons"
    /\ GuiStep([gui EXCEPT !.main = "mainloop", !.start_button = "normal",
                           !.stop_button = "disabled", !.returned = TRUE])

\* _audio_callback, lines 93-96: PortAudio calls it on its own thread while
\* the stream runs; it returns at once unless recording is active.
AudioCallbackCheck ==
    /\ gui.stream /\ gui.cb = "idle" /\ gui.produced < MaxChunks
    /\ IF gui.stop_event \in {"none", "set"}
       THEN GuiStep([gui EXCEPT !.produced = @ + 1])
       ELSE GuiStep([gui EXCEPT !.produced = @ + 1, !.cb = "put"])

\* _audio_callback, lines 98-99: the block is put into the queue, whatever
\* the event says by now.
AudioCallbackPut ==
    /\ gui.cb = "put"
    /\ GuiStep([gui EXCEPT !.cb = "idle",
                           !.audio_queue = Append(@, gui.produced),
                           !.enqueued = @ \cup {gui.produced},
                           !.late_put = @ \/ gui.stop_event # "clear"])

\* _process_audio, line 104: the loop condition reads self.stop_event, the
\* event of the latest start.
ProcCheck(t) ==
    /\ gui.thread[t].pc = "check"
    /\ gui.stop_event # "none"
    /\ GuiStep([gui EXCEPT !.thread[t].pc =
                   IF gui.stop_event = "set" THEN "dead" ELSE "get"])

\* Lines 106-107 and 128: a block is taken and appended to the buffer, or
\* the get times out and the loop goes round.
ProcGet(t) ==
    /\ gui.thread[t].pc = "get"
    /\ IF gui.audio_queue # <<>>
       THEN GuiStep([gui EXCEPT !.audio_queue = Tail(@),
                                !.taken = @ \cup {Head(gui.audio_queue)},
                                !.thread[t].buffer = @ + 1,
                                !.thread[t].pc = "window"])
       ELSE GuiStep([gui EXCEPT !.thread[t].pc = "check"])

\* Lines 109-119 and 123-125: while the buffer holds a whole window it is cut
\* off; a silent window or an empty transcript is passed over, any other
\* outcome (a transcript, a caught failure) is handed to the main thread.
ProcWindow(t) ==
    /\ gui.thread[t].pc = "window"
    /\ IF gui.thread[t].buffer >= chunk_samples
       THEN \/ GuiStep([gui EXCEPT !.thread[t].buffer = @ - chunk_samples])
            \/ GuiStep([gui EXCEPT !.thread[t].buffer = @ - chunk_samples,
                                   !.thread[t].pc = "after"])
       ELSE GuiStep([gui EXCEPT !.thread[t].pc = "check"])

\* Lines 121 and 126: root.after called from a thread that is not the main
\* thread is carried out by the main loop; the call returns once the main
\* thread is back in the loop, which then shows the outcome (lines 135-143).
ProcAfter(t) ==
    /\ gui.thread[t].pc = "after"
    /\ gui.main = "mainloop"
    /\ GuiStep([gui EXCEPT !.thread[t].pc = "window",
                           !.transcription_display = @ + 1])

GuiNext ==
    \/ LoadModel \/ StartClick \/ NewQueue \/ NewEvent \/ StartThread
    \/ StartStream \/ StartButtons
    \/ StopClick \/ StopIdle \/ SetStopEvent \/ StopStream \/ JoinThread
    \/ StopButtons
    \/ AudioCallbackCheck \/ AudioCallbackPut
    \/ \E t \in Threads : ProcCheck(t) \/ ProcGet(t) \/ ProcWindow(t) \/ ProcAfter(t)

GuiSpec == GuiInit /\ [][GuiNext]_vars

Alive == {t \in Threads : ~(gui.thread[t].pc \in {"unborn", "dead"})}

\* C23: when stop_recording has returned, every chunk that was enqueued
\* before stop was requested has been taken from the queue, and no thread
\* still holds a whole window of samples in its buffer.
C23_StopDrainsQueue ==
    gui.returned =>
        /\ gui.before_stop \subseteq gui.taken
        /\ \A t \in Threads : gui.thread[t].buffer < chunk_samples

\* The main thread, waiting in join for a processing thread that waits for
\* the main loop to carry out its root.after: neither goes on.
JoinBlocked ==
    /\ gui.main = "join" /\ gui.process_thread # 0
    /\ gui.thread[gui.process_thread].pc = "after"

C23_StopReturns == ~JoinBlocked

\* C29: at any moment at most one processing thread and at most one input
\* stream are alive, and the callback has put no chunk into the queue
\* while recording was not active.
C29_OneThreadOneStream ==
    /\ Cardinality(Alive) <= 1
    /\ gui.streams <= 1
    /\ ~gui.late_put

C29_OneStream == gui.streams <= 1

C29_OneThread == Cardinality(Alive) <= 1

C29_NoLatePut == ~gui.late_put

\* The requests were served one after another: none arrived while another
\* was being served.
OneAfterAnother == \A j \in Jobs : job[j].alone

\* The frames of job j's own input that reached the encoder's directory.
OwnCount(j) == IF IsStab(j) THEN job[j].saved_frame_count ELSE job[j].nframes

\* C24: when the jobs run one after another, every frame encoded into a
\* job's output and every frame file an effect job has listed was written
\* by that job, and the output has no more frames than the job wrote.
C24_OnlyOwnFrames ==
    OneAfterAnother =>
        \A j \in Jobs :
            /\ \A i \in 1 .. Len(pub[j].content) : pub[j].content[i][1] = j
            /\ Len(pub[j].content) <= OwnCount(j)
            /\ job[j].pc = "process_frames" =>
                   \A s \in job[j].listing : frames[s] # NoFile => frames[s][1] = j

\* The rate of the fps filter that decodes the frames of an effect job.
ExtractFps == 30

EffectOk(j) == IsEffect(j) /\ Done(j) /\ job[j].response.kind = "ok"

\* C25: an effect job that succeeded has encoded its output at the rate its
\* frames were decoded at, and the output lasts as long as the source.
C25_SameRateSameDuration ==
    \A j \in Jobs :
        EffectOk(j) =>
            /\ pub[j].rate = ExtractFps
            /\ pub[j].vdur = Duration(job[j].nframes, ExtractFps)

\* For a source of 30 frames per second, served while no other job runs,
\* the two rates are the same.
C25_SameAtThirty ==
    \A j \in Jobs :
        EffectOk(j) /\ job[j].fps = ExtractFps /\ OneAfterAnother =>
            /\ pub[j].rate = ExtractFps
            /\ pub[j].vdur = Duration(job[j].nframes, ExtractFps)

(***************************************************************************)
(* getResponseFromLlama3 (llm_api.py): one command posted to /api/llm      *)
(***************************************************************************)
\* The tools registered by a prompts/<tool>/tool_info.py, and the three the
\* handler answers from the extracted parameters alone (line 469), which it
\* reaches only for registered names.  prompts/tool_info.py, which joins
\* the registrations, is not among the sources.
TOOL_INFO ==
    {"add_file", "file_classify", "text_to_speech", "video_stabilization",
     "add_text", "add_shape", "add_slide"}

\* The tools of line 174, served from the selected item of the context.
ImageTools == {"image_bg_remove", "add_portrait_effect", "make_super_res"}

\* What the first LLM call may name: a tool, NULL, a near miss of a
\* registered name, a name nobody knows.
SaidTools == TOOL_INFO \cup ImageTools \cup {"NULL", "video_stabilisation", "make_coffee"}

\* process.extractOne against TOOL_INFO's keys and NULL with the threshold
\* of line 158: a listed name is its own best match, a near miss is replaced
\* by the name it resembles, any other name is kept as the LLM said it.
ToolMatch(said) ==
    IF said = "video_stabilisation" THEN "video_stabilization" ELSE said

\* The fields VideoStabilizationRequest declares (data_models.py:13).
VideoStabilizationRequest == {"video_path"}

\* request.context: absent, or a dict with or without a selected item, a
\* list of files and a current directory.
Contexts ==
    {c \in [present : BOOLEAN, selected : BOOLEAN, files : BOOLEAN,
            current_directory : BOOLEAN] :
        ~c.present => ~c.selected /\ ~c.files /\ ~c.current_directory}

build_response(success, tool_name, error, params) ==
    [kind |-> "response", success |-> success, tool_name |-> tool_name,
     error |-> error, params |-> params]

\* What a Python function gives back when it ends without a return.
None == [kind |-> "None"]

LlmStart(c) ==
    [pc |-> "identify", context |-> c, tool_name |-> "", has_param |-> FALSE,
     called |-> FALSE, ret |-> [kind |-> "pending"]]

LlmInit ==
    /\ FsInit /\ warp = IdleWarp /\ gui = IdleGui
    /\ llm \in {LlmStart(c) : c \in Contexts}

LlmStep(l) == llm' = l /\ UNCHANGED <<jobVars, warp, gui>>

Return(resp) == [llm EXCEPT !.pc = "returned", !.ret = resp]

\* The three outer handlers (lines 496-505): whatever is raised inside the
\* function and not caught further in becomes a failure response.
Caught(error) == Return(build_response(FALSE, "", error, ""))

\* _get_image_uri_from_context (lines 66-99).
HasSelection(c) == c.present /\ c.selected

\* Step 1 (lines 136-171): the first LLM call and the match of its answer.
IdentifyTool ==
    /\ llm.pc = "identify"
    /\ \/ \E said \in SaidTools :
            LlmStep([llm EXCEPT !.pc = "dispatch", !.tool_name = ToolMatch(said)])
       \/ \* call_llm raises requests.RequestException
          LlmStep(Caught("Error communicating with LLM service"))
       \/ \* json.JSONDecodeError, KeyError, IndexError (line 165)
          LlmStep(Return(build_response(FALSE, "",
                      "Could not parse tool identification response", "")))
       \/ \* the answer is JSON but no object with a tool name
          LlmStep(Caught("unexpected error"))

\* Step 2 (lines 173-183, 222, 482-494): the branch for the matched name.
Dispatch ==
    /\ llm.pc = "dispatch"
    /\ LET t == llm.tool_name
       IN CASE t \in ImageTools ->
                 IF HasSelection(llm.context)
                 THEN LlmStep([llm EXCEPT !.pc = "image_call"])
                 ELSE LlmStep(Return(build_response(FALSE, t, "please select an item", "")))
            [] t \in TOOL_INFO -> LlmStep([llm EXCEPT !.pc = "load_prompt"])
            [] t = "NULL" -> LlmStep(Return(build_response(TRUE, "NULL", "", "")))
            [] OTHER -> LlmStep(Return(build_response(TRUE, t, "", "")))

\* Lines 191-220: the cv_api function answers with a dict, success or not.
ImageCall ==
    /\ llm.pc = "image_call"
    /\ \/ LlmStep(Return(build_response(TRUE, llm.tool_name, "", "imageUri")))
       \/ LlmStep(Return(build_response(FALSE, llm.tool_name, "error from CV API", "")))

\* Lines 222-240: the prompt module of the tool is imported, or the import
\* fails.
LoadPrompt ==
    /\ llm.pc = "load_prompt"
    /\ \/ LlmStep([llm EXCEPT !.pc = "extract_params"])
       \/ LlmStep(Return(build_response(FALSE, "",
                      "Could not load parameter extraction prompt", "")))

\* Lines 242-265 and 475-480: the second LLM call and the parse of its
\* answer; has_param says whether the answer names the tool's parameter.
ExtractParams ==
    /\ llm.pc = "extract_params"
    /\ \/ \E p \in BOOLEAN : LlmStep([llm EXCEPT !.pc = "tool_branch", !.has_param = p])
       \/ LlmStep(Caught("Error communicating with LLM service"))
       \/ LlmStep(Caught("Tool not found in TOOL_INFO"))
       \/ LlmStep(Return(build_response(FALSE, llm.tool_name,
                      "Could not parse parameter extraction response", "")))

\* add_file (lines 267-316).
AddFile ==
    /\ llm.pc = "tool_branch" /\ llm.tool_name = "add_file"
    /\ LET t == llm.tool_name
           c == llm.context
       IN IF ~llm.has_param
          THEN LlmStep(Return(build_response(FALSE, t, "Could not identify the file", "")))
          ELSE IF ~c.present
          THEN LlmStep(Caught("'NoneType' object has no attribute 'get'"))
          ELSE IF ~c.files
          THEN LlmStep(Return(build_response(FALSE, t, "There are no files available", "")))
          ELSE \/ LlmStep(Return(build_response(TRUE, t, "", "fileName")))
               \/ LlmStep(Return(build_response(FALSE, t, "I could not find a file", "NULL")))

\* file_classify (lines 318-394).
FileClassify ==
    /\ llm.pc = "tool_branch" /\ llm.tool_name = "file_classify"
    /\ LET t == llm.tool_name
           c == llm.context
       IN IF ~llm.has_param
          THEN LlmStep(Return(build_response(FALSE, t, "Could not identify the search query", "")))
          ELSE IF ~c.present
          THEN LlmStep(Caught("'NoneType' object has no attribute 'get'"))
          ELSE IF ~c.files
          THEN LlmStep(Return(build_response(FALSE, t, "There are no files available", "")))
          ELSE IF ~c.current_directory
          THEN LlmStep(Return(build_response(FALSE, t, "Current directory not available", "")))
          ELSE \/ LlmStep(Return(build_response(TRUE, t, "", "results")))
               \/ LlmStep(Return(build_response(FALSE, t, "No matching files found", "results")))
               \/ LlmStep(Return(build_response(FALSE, t, "Error during file classification", "")))

\* video_stabilization, lines 396-444: the path comes from the extracted
\* parameters or from the selected item, is made absolute against the
\* context, and must exist.  absolute, in_directory, confident and exists
\* are what os.path.isabs, the two os.path.exists and the fuzzy match say.
ResolveVideoPath ==
    /\ llm.pc = "tool_branch" /\ llm.tool_name = "video_stabilization"
    /\ LET t == llm.tool_name
           c == llm.context
           fail(e) == LlmStep(Return(build_response(FALSE, t, e, "")))
           call == LlmStep([llm EXCEPT !.pc = "call_stabilization"])
       IN IF ~llm.has_param /\ ~HasSelection(c)
          THEN fail("Could not identify the video to stabilize")
          ELSE \E absolute \in BOOLEAN, in_directory \in BOOLEAN,
                  confident \in BOOLEAN, exists \in BOOLEAN :
                 IF absolute
                 THEN IF exists THEN call ELSE fail("Video file not found")
                 ELSE IF ~c.present
                 THEN LlmStep(Caught("'NoneType' object has no attribute 'get'"))
                 ELSE IF ~c.current_directory
                 THEN fail("Video path is relative, but no current directory")
                 ELSE IF in_directory
                 THEN call
                 ELSE IF ~c.files
                 THEN LlmStep(Caught("cannot unpack non-iterable NoneType object"))
                 ELSE IF confident
                 THEN IF exists THEN call ELSE fail("Video file not found")
                 ELSE fail("Could not find video")

\* Lines 447-449: the request is built from video_path alone and
\* api_video_stabilization is called; the call runs the whole handler
\* before anything is awaited.
CallStabilization ==
    /\ llm.pc = "call_stabilization"
    /\ job[1].kind = "idle"
    /\ \E au \in BOOLEAN :
         job' = [job EXCEPT ![1] = Requested(job[1],
                                      "time_stamp" \in VideoStabilizationRequest,
                                      au, "ok")]
    /\ llm' = [llm EXCEPT !.pc = "stabilization_returned", !.called = TRUE]
    /\ UNCHANGED <<fsShared, clip, mov, pub, faults, warp, gui>>

\* Lines 449-466.  What the handler raised is caught at line 464.  What it
\* returned is a VideoStabilizationResponse and api_video_stabilization a
\* plain def: the await expression raises TypeError, caught at line 464
\* too.
StabilizationReturned ==
    /\ llm.pc = "stabilization_returned"
    /\ job[1].pc = "done"
    /\ LET resp == job[1].response
       IN IF resp.kind = "ok"
          THEN LlmStep(Return(build_response(FALSE, llm.tool_name,
                   "Error during video stabilization: object can't be used in 'await' expression", "")))
          ELSE LlmStep(Return(build_response(FALSE, llm.tool_name,
                   "Error during video stabilization: " \o resp.detail, "")))

\* Lines 469-473.
ParamsOnly ==
    /\ llm.pc = "tool_branch"
    /\ llm.tool_name \in {"add_text", "add_shape", "add_slide"}
    /\ LlmStep(Return(build_response(TRUE, llm.tool_name, "", "extracted_params")))

\* A registered tool none of the branches of lines 267-469 names: the try
\* block ends, the if of line 174 ends, and so does the function.
NoBranch ==
    /\ llm.pc = "tool_branch"
    /\ ~(llm.tool_name \in {"add_file", "file_classify", "video_stabilization",
                            "add_text", "add_shape", "add_slide"})
    /\ LlmStep(Return(None))

LlmNext ==
    \/ IdentifyTool \/ Dispatch \/ ImageCall \/ LoadPrompt \/ ExtractParams
    \/ AddFile \/ FileClassify \/ ResolveVideoPath \/ CallStabilization
    \/ StabilizationReturned \/ ParamsOnly \/ NoBranch

LlmSpec == LlmInit /\ [][LlmNext]_vars

Returned == llm.pc = "returned"

\* C26: every call that has returned gave back a response built by
\* build_response, with a boolean success.
C26_AlwaysStructured ==
    Returned => llm.ret.kind = "response" /\ llm.ret.success \in BOOLEAN

\* C27: a call that handed an existing video to api_video_stabilization,
\* no step of which failed, has returned success with the output path.
C27_StabilizationSucceeds ==
    Returned /\ llm.called /\ faults = 0 =>
        /\ llm.ret.kind = "response"
        /\ llm.ret.success
        /\ llm.ret.params = "output_path"

\* A request built from video_path alone carries api_video_stabilization to
\* its success response.
C27_VideoPathIsEnough ==
    llm.pc = "stabilization_returned" => job[1].response.kind # "raised"

\* Job j is in stabilize_video between the first iteration of the frame loop
\* and the cleanup of lines 306-328.
InStabilize(j) ==
    /\ IsStab(j)
    /\ job[j].pc \in {"loop", "after_loop", "encode_frames", "encode_mov_start",
                      "encode_mov"}

OwnedBy(j, file) == file # NoFile /\ file[1] = j

\* The three files of every number below saved_frame_count are there as job
\* j wrote them, no higher number carries a file of j, and the count keeps
\* within frame_count - smoothing_window + 1.
Contiguous(j) ==
    /\ \A s \in Slots :
         IF s < job[j].saved_frame_count
         THEN OwnedBy(j, frames[s]) /\ OwnedBy(j, tmask[s]) /\ OwnedBy(j, imask[s])
         ELSE ~OwnedBy(j, frames[s]) /\ ~OwnedBy(j, tmask[s]) /\ ~OwnedBy(j, imask[s])
    /\ job[j].saved_frame_count <= job[j].frame_count - smoothing_window + 1
       \/ job[j].saved_frame_count = 0

\* The cleanup of the success path has taken away the files of j and no
\* other.
CleanupExact(j) ==
    EncodeMov(j) =>
        \A s \in Slots :
            /\ frames'[s] = IF OwnedBy(j, frames[s]) THEN NoFile ELSE frames[s]
            /\ tmask'[s] = IF OwnedBy(j, tmask[s]) THEN NoFile ELSE tmask[s]
            /\ imask'[s] = IF OwnedBy(j, imask[s]) THEN NoFile ELSE imask[s]

\* C28: while stabilize_video runs, its saved files are numbered 0 ..
\* saved_frame_count - 1 without a gap, three files to a number and none
\* above, and saved_frame_count <= max(0, frame_count - smoothing_window + 1).
C28_ContiguousNumbering == \A j \in Jobs : InStabilize(j) => Contiguous(j)

\* The success-path cleanup removes exactly the files of the run.
C28_CleanupRemovesOwn == [][\A j \in Jobs : CleanupExact(j)]_vars

\* Served while no other job runs, a stabilization keeps its numbering.
C28_ContiguousWhenAlone ==
    OneAfterAnother => \A j \in Jobs : InStabilize(j) => Contiguous(j)

C28_CleanupWhenAlone == [][OneAfterAnother => \A j \in Jobs : CleanupExact(j)]_vars

\* An effect handler leaves through one of its cleanup_temp_files(temp_dir).
EffectCleanup(j) ==
    /\ IsEffect(j)
    /\ job[j].pc \in {"extract_frames_and_audio", "listdir", "process_frames", "combine"}
    /\ job'[j].pc = "done"

\* ./tmp does not exist: it holds no directory and no file.
TmpGone ==
    /\ \A d \in DirNames : dirs[d] = 0
    /\ Empty(frames) /\ Empty(tmask) /\ Empty(imask) /\ Empty(processed)
    /\ audio = NoFile
    /\ \A j \in Jobs : clip[j] = "absent" /\ mov[j] = "absent"

\* C30: once cleanup_temp_files has returned, none of the paths it was
\* given exists: the clip and the MOV of a stabilization, the temp directory
\* of an effect job.
C30_CleanupRemovesAll ==
    [][\A j \in Jobs :
          /\ StabilizeReturn(j) => clip'[j] = "absent" /\ mov'[j] = "absent"
          /\ EffectCleanup(j) => TmpGone']_vars

\* The regular files handed to cleanup_temp_files are gone afterwards.
C30_FilesRemoved ==
    [][\A j \in Jobs : StabilizeReturn(j) => clip'[j] = "absent" /\ mov'[j] = "absent"]_vars

====
